---- MODULE Spec2Model ----
(***************************************************************************)
(* Model of src/solar_dashboard.py: the Dash callbacks toggle_simulation,  *)
(* update_data and update_graphs, and the helper simulate_data.            *)
(*                                                                         *)
(* Numbers are fixed point, so that the arithmetic of simulate_data is     *)
(* exact over the integers:                                                *)
(*   irradiance          W/m^2                                             *)
(*   temp                degrees Celsius                                   *)
(*   dust                hundredths (the dust slider's step is 0.01)       *)
(*   loss_temp,loss_dust thousandths                                       *)
(*   actual_eff          1e-5 (0.18 is 18000)                              *)
(*   efficiency percent  thousandths of a percent (18 % is 18000)          *)
(*   power_output        1e-9 kW                                           *)
(***************************************************************************)
EXTENDS Integers, Sequences, FiniteSets, TLC

VARIABLES
    n_clicks,       \* start-stop-button.n_clicks
    children,       \* start-stop-button.children (the label)
    disabled,       \* interval-component.disabled
    n_intervals,    \* interval-component.n_intervals
    irradiance,     \* irradiance-slider.value
    temp,           \* temp-slider.value
    dust,           \* dust-slider.value
    data,           \* data-store.data
    eff_fig,        \* efficiency-graph.figure (the trace's x and y)
    power_fig,      \* power-graph.figure (the trace's x and y)
    warning_text,   \* warning-message.children
    initial,        \* callbacks whose call at page load is still due
    graphs_due,     \* data-store.data was written, update_graphs is due
    result,         \* what the last direct call of simulate_data returned
    appended,       \* history: every triple update_data appended, in order
    stopped_ticks   \* history: number of ticks delivered while disabled

vars == <<n_clicks, children, disabled, n_intervals, irradiance, temp, dust,
          data, eff_fig, power_fig, warning_text, initial, graphs_due,
          result, appended, stopped_ticks>>

button == <<n_clicks, children, disabled>>
sliders == <<irradiance, temp, dust>>
graphs == <<eff_fig, power_fig, warning_text>>

----------------------------------------------------------------------------
(* Bounds of the model.                                                    *)

MaxClicks == 3          \* clicks of the button in a session
MaxTicks == 3           \* ticks of a short session (Spec)
MaxLongTicks == 65      \* ticks of a long session (SpecLong)
MaxLongClicks == 3      \* clicks of a long session
MaxLongStopped == 1     \* ticks delivered while stopped in a long session
MaxSimLen == 2          \* samples stored by direct calls (SpecSim)

----------------------------------------------------------------------------
(* Program constants.                                                      *)

ideal_eff == 18000
panel_area == 16
max_len == 60
warning_level == 14000

START_LABEL == "Start Simulation"
STOP_LABEL == "Stop Simulation"
WARNING_MESSAGE == "Warning: Efficiency dropped below 14%!"

\* Values the three sliders can be set to (a sample of each slider's range).
IrradianceValues == {0, 800}
TempValues == {25, 50}
DustValues == {10, 100}

\* Arguments of direct calls: the functions validate nothing.
AnyIrradiance == {-10, 0, 1200}
AnyTemp == {-300, 25, 300}
AnyDust == {-100, 0, 500}

\* d['time'], d['efficiency'], d['power'] of the layout's data-store
EmptyData == [time |-> <<>>, efficiency |-> <<>>, power |-> <<>>]

----------------------------------------------------------------------------
(* simulate_data                                                           *)

\* Faults of clip: the upper bound, or the lower bound, is not applied.
clip_no_max(a, a_min, a_max) ==
    IF a < a_min THEN a_min ELSE a

clip_no_min(a, a_min, a_max) ==
    IF a > a_max THEN a_max ELSE a

clip(a, a_min, a_max) ==
    IF a < a_min THEN a_min ELSE IF a > a_max THEN a_max ELSE a

\* Fault of loss_temp: the reference temperature is 20 instead of 25.
loss_temp_ref20(t) == 5 * (t - 20)

loss_temp(t) == 5 * (t - 25)

loss_dust(d) == 2 * d

\* Fault of actual_eff: the efficiency is not clipped.
actual_eff_unclipped(t, d) ==
    (ideal_eff * (1000 - loss_temp(t) - loss_dust(d))) \div 1000

actual_eff(t, d) ==
    clip((ideal_eff * (1000 - loss_temp(t) - loss_dust(d))) \div 1000,
         0, ideal_eff)

power_output(irr, eff) == irr * panel_area * eff

simulate_data(irr, t, d) ==
    <<actual_eff(t, d), power_output(irr, actual_eff(t, d))>>

----------------------------------------------------------------------------
(* toggle_simulation: returns <<disabled, children>>                       *)

\* Faults of toggle_simulation: a click always starts; the labels of the
\* two branches are exchanged.
toggle_simulation_start_only(clicks, dis) ==
    IF clicks = 0
    THEN <<TRUE, START_LABEL>>
    ELSE <<FALSE, STOP_LABEL>>

toggle_simulation_labels_exchanged(clicks, dis) ==
    IF clicks = 0
    THEN <<TRUE, START_LABEL>>
    ELSE IF dis
         THEN <<FALSE, START_LABEL>>
         ELSE <<TRUE, STOP_LABEL>>

toggle_simulation(clicks, dis) ==
    IF clicks = 0
    THEN <<TRUE, START_LABEL>>
    ELSE IF dis
         THEN <<FALSE, STOP_LABEL>>
         ELSE <<TRUE, START_LABEL>>

----------------------------------------------------------------------------
(* update_data                                                             *)

\* Fault of the slice: lst[:k], the oldest k entries, is kept.
FirstSlice(lst, k) ==
    IF Len(lst) <= k THEN lst ELSE SubSeq(lst, 1, k)

\* Python's lst[-k:] for k > 0
LastSlice(lst, k) ==
    IF Len(lst) <= k THEN lst ELSE SubSeq(lst, Len(lst) - k + 1, Len(lst))

trim(lst, time_list) ==
    IF Len(time_list) > max_len THEN LastSlice(lst, max_len) ELSE lst

\* Faults of update_data: power_list is not trimmed; disabled is not tested.
update_data_power_untrimmed(intervals, irr, t, d, dat, dis) ==
    IF dis
    THEN dat
    ELSE LET sim == simulate_data(irr, t, d)
             time_list == Append(dat.time, intervals)
             eff_list == Append(dat.efficiency, sim[1])
             power_list == Append(dat.power, sim[2])
         IN  [time |-> trim(time_list, time_list),
              efficiency |-> trim(eff_list, time_list),
              power |-> power_list]

update_data_unguarded(intervals, irr, t, d, dat, dis) ==
    LET sim == simulate_data(irr, t, d)
        time_list == Append(dat.time, intervals)
        eff_list == Append(dat.efficiency, sim[1])
        power_list == Append(dat.power, sim[2])
    IN  [time |-> trim(time_list, time_list),
         efficiency |-> trim(eff_list, time_list),
         power |-> trim(power_list, time_list)]

update_data(intervals, irr, t, d, dat, dis) ==
    IF dis
    THEN dat
    ELSE LET sim == simulate_data(irr, t, d)
             time_list == Append(dat.time, intervals)
             eff_list == Append(dat.efficiency, sim[1])
             power_list == Append(dat.power, sim[2])
         IN  [time |-> trim(time_list, time_list),
              efficiency |-> trim(eff_list, time_list),
              power |-> trim(power_list, time_list)]

----------------------------------------------------------------------------
(* update_graphs: returns <<eff_fig, power_fig, warning_text>>             *)

\* Fault of the alert: the oldest sample is tested instead of the latest.
warning_first(eff_list) ==
    IF Len(eff_list) > 0 /\ eff_list[1] < warning_level
    THEN WARNING_MESSAGE
    ELSE ""

warning(eff_list) ==
    IF Len(eff_list) > 0 /\ eff_list[Len(eff_list)] < warning_level
    THEN WARNING_MESSAGE
    ELSE ""

update_graphs(dat) ==
    <<[x |-> dat.time, y |-> dat.efficiency],
      [x |-> dat.time, y |-> dat.power],
      warning(dat.efficiency)>>

----------------------------------------------------------------------------
(* The page: the layout, then one action per event and callback.           *)

Layout ==
    /\ n_clicks = 0
    /\ children = START_LABEL
    /\ disabled = TRUE
    /\ n_intervals = 0
    /\ irradiance = 800
    /\ temp = 25
    /\ dust = 10
    /\ data = EmptyData
    /\ eff_fig = [x |-> <<>>, y |-> <<>>]
    /\ power_fig = [x |-> <<>>, y |-> <<>>]
    /\ warning_text = ""

Init ==
    /\ Layout
    /\ initial = {"toggle_simulation", "update_data"}
    /\ graphs_due = TRUE
    /\ result = <<>>
    /\ appended = <<>>
    /\ stopped_ticks = 0

\* The history of what update_data appended in a call.
Record(intervals, irr, t, d, dis) ==
    IF dis
    THEN appended
    ELSE Append(appended, <<intervals, simulate_data(irr, t, d)[1],
                            simulate_data(irr, t, d)[2]>>)

\* Dash calls every callback once when the page loads.
LoadToggle ==
    /\ "toggle_simulation" \in initial
    /\ disabled' = toggle_simulation(n_clicks, disabled)[1]
    /\ children' = toggle_simulation(n_clicks, disabled)[2]
    /\ initial' = initial \ {"toggle_simulation"}
    /\ UNCHANGED <<n_clicks, n_intervals, sliders, data, graphs, graphs_due,
                   result, appended, stopped_ticks>>

LoadData ==
    /\ "update_data" \in initial
    /\ data' = update_data(n_intervals, irradiance, temp, dust, data, disabled)
    /\ appended' = Record(n_intervals, irradiance, temp, dust, disabled)
    /\ graphs_due' = TRUE
    /\ initial' = initial \ {"update_data"}
    /\ UNCHANGED <<button, n_intervals, sliders, graphs, result,
                   stopped_ticks>>

\* A click on the button: n_clicks changes, toggle_simulation runs.
Click(maxClicks) ==
    /\ initial = {}
    /\ n_clicks < maxClicks
    /\ n_clicks' = n_clicks + 1
    /\ disabled' = toggle_simulation(n_clicks', disabled)[1]
    /\ children' = toggle_simulation(n_clicks', disabled)[2]
    /\ UNCHANGED <<n_intervals, sliders, data, graphs, initial, graphs_due,
                   result, appended, stopped_ticks>>

\* A tick of the interval: n_intervals changes, update_data runs.
Tick(maxTicks, maxStopped) ==
    /\ initial = {}
    /\ n_intervals < maxTicks
    /\ disabled => stopped_ticks < maxStopped
    /\ n_intervals' = n_intervals + 1
    /\ data' = update_data(n_intervals', irradiance, temp, dust, data, disabled)
    /\ appended' = Record(n_intervals', irradiance, temp, dust, disabled)
    /\ stopped_ticks' = IF disabled THEN stopped_ticks + 1 ELSE stopped_ticks
    /\ graphs_due' = TRUE
    /\ UNCHANGED <<button, sliders, graphs, initial, result>>

\* data-store.data was written: update_graphs runs.
UpdateGraphs ==
    /\ graphs_due
    /\ "update_data" \notin initial
    /\ eff_fig' = update_graphs(data)[1]
    /\ power_fig' = update_graphs(data)[2]
    /\ warning_text' = update_graphs(data)[3]
    /\ graphs_due' = FALSE
    /\ UNCHANGED <<button, n_intervals, sliders, data, initial, result,
                   appended, stopped_ticks>>

\* The sliders are State of update_data: moving one runs no callback.
SetIrradiance ==
    /\ initial = {}
    /\ \E v \in IrradianceValues \ {irradiance} : irradiance' = v
    /\ UNCHANGED <<button, n_intervals, temp, dust, data, graphs, initial,
                   graphs_due, result, appended, stopped_ticks>>

SetTemp ==
    /\ initial = {}
    /\ \E v \in TempValues \ {temp} : temp' = v
    /\ UNCHANGED <<button, n_intervals, irradiance, dust, data, graphs,
                   initial, graphs_due, result, appended, stopped_ticks>>

SetDust ==
    /\ initial = {}
    /\ \E v \in DustValues \ {dust} : dust' = v
    /\ UNCHANGED <<button, n_intervals, irradiance, temp, data, graphs,
                   initial, graphs_due, result, appended, stopped_ticks>>

ShortClick == Click(MaxClicks)
ShortTick == Tick(MaxTicks, MaxTicks)

Next ==
    \/ LoadToggle
    \/ LoadData
    \/ ShortClick
    \/ ShortTick
    \/ UpdateGraphs
    \/ SetIrradiance
    \/ SetTemp
    \/ SetDust

Spec == Init /\ [][Next]_vars

----------------------------------------------------------------------------
(* A long session: enough ticks to fill the series past max_len.  A tick   *)
(* waits for the graphs of the tick before it, and the dust slider is only *)
(* moved up, while the simulation is stopped.                              *)

LongClick == Click(MaxLongClicks)

LongTick ==
    /\ ~graphs_due
    /\ Tick(MaxLongTicks, MaxLongStopped)

LongDust ==
    /\ initial = {}
    /\ disabled
    /\ \E v \in DustValues : v > dust /\ dust' = v
    /\ UNCHANGED <<button, n_intervals, irradiance, temp, data, graphs,
                   initial, graphs_due, result, appended, stopped_ticks>>

NextLong ==
    \/ LoadToggle
    \/ LoadData
    \/ LongClick
    \/ LongTick
    \/ UpdateGraphs
    \/ LongDust

SpecLong == Init /\ [][NextLong]_vars

----------------------------------------------------------------------------
(* Direct calls of simulate_data and update_data with arguments of any     *)
(* size and sign: neither validates what it is given.                      *)

InitSim ==
    /\ Layout
    /\ initial = {}
    /\ graphs_due = FALSE
    /\ result = <<>>
    /\ appended = <<>>
    /\ stopped_ticks = 0

SimCall ==
    /\ \E i \in AnyIrradiance, t \in AnyTemp, d \in AnyDust :
          /\ irradiance' = i
          /\ temp' = t
          /\ dust' = d
          /\ result' = simulate_data(i, t, d)
    /\ UNCHANGED <<button, n_intervals, data, graphs, initial, graphs_due,
                   appended, stopped_ticks>>

SimStore ==
    /\ Len(data.time) < MaxSimLen
    /\ n_intervals' = n_intervals + 1
    /\ data' = update_data(n_intervals', irradiance, temp, dust, data, FALSE)
    /\ appended' = Record(n_intervals', irradiance, temp, dust, FALSE)
    /\ UNCHANGED <<button, sliders, graphs, initial, graphs_due, result,
                   stopped_ticks>>

NextSim ==
    \/ SimCall
    \/ SimStore

SpecSim == InitSim /\ [][NextSim]_vars

----------------------------------------------------------------------------
(* Properties.                                                             *)

Last(lst) == lst[Len(lst)]

\* C1: in every state reached by clicks and ticks the sequences time,
\* efficiency and power of the stored series have the same length, and that
\* length is at most 60.
C1_SeriesAligned ==
    /\ Len(data.time) = Len(data.efficiency)
    /\ Len(data.efficiency) = Len(data.power)
    /\ Len(data.time) <= 60

\* The series is full, has been trimmed, and the button was clicked to start
\* and to stop.
C1_Witness ==
    /\ Len(data.time) = 60
    /\ Len(appended) > 60
    /\ n_clicks >= 2

\* C2: after n processed ticks the series holds exactly the last min(n, 60)
\* appended triples, in the order they were appended; ticks 1..65 leave
\* ticks 6..65.
C2_LastAppended ==
    LET n == Len(appended)
        k == IF n < 60 THEN n ELSE 60
        kept(i) == appended[n - k + i]
    IN  /\ data.time = [i \in 1..k |-> kept(i)[1]]
        /\ data.efficiency = [i \in 1..k |-> kept(i)[2]]
        /\ data.power = [i \in 1..k |-> kept(i)[3]]
        /\ (n = 65 /\ \A i \in 1..65 : appended[i][1] = i)
              => data.time = [i \in 1..60 |-> i + 5]

\* Ticks 1..65 were all processed: the series starts at tick 6.
C2_Witness ==
    /\ Len(appended) = 65
    /\ \A i \in 1..65 : appended[i][1] = i
    /\ data.time[1] = 6
    /\ data.time[60] = 65

\* C3: a tick that arrives while the interval is disabled leaves the stored
\* series as it was, whatever the sliders say.
C3_StoppedTickFrame ==
    [][(disabled /\ n_intervals' # n_intervals) => data' = data]_vars

\* A tick arrived while stopped, with samples in the series and the sliders
\* moved away from their initial values.
C3_Witness ==
    /\ disabled
    /\ stopped_ticks > 0
    /\ Len(data.time) > 0
    /\ n_intervals > Last(data.time)
    /\ <<irradiance, temp, dust>> = <<0, 50, 100>>

\* C4: the interval starts disabled (STOPPED); a step changes disabled if and
\* only if it is a click of the button, so the state alternates with each
\* click and no other event changes it.
C4_TwoStateToggle ==
    /\ disabled = TRUE
    /\ [][(n_clicks' # n_clicks) <=> (disabled' # disabled)]_vars

\* Started, ran, stopped and started again.
C4_Witness ==
    /\ n_clicks = 3
    /\ ~disabled
    /\ Len(data.time) > 0
    /\ stopped_ticks > 0

\* C5: once update_graphs has run on the stored series, the alert is
\* non-empty if and only if the series is non-empty and its latest
\* efficiency is below 14 %, whatever the earlier values were.
C5_AlertLatestOnly ==
    ~graphs_due =>
        (warning_text # "" <=>
            (Len(data.efficiency) > 0 /\ Last(data.efficiency) < 14000))

\* No alert although an earlier sample was below 14 %.
C5_Witness ==
    /\ ~graphs_due
    /\ warning_text = ""
    /\ Len(data.efficiency) >= 2
    /\ data.efficiency[1] < 14000
    /\ Last(data.efficiency) >= 14000

\* C6: the efficiency simulate_data returns lies in [0, 18] percent for
\* arguments of any size, and so does every efficiency stored in the series.
C6_EfficiencyClipped ==
    /\ result # <<>> => (0 <= result[1] /\ result[1] <= 18000)
    /\ \A i \in 1..Len(data.efficiency) :
          0 <= data.efficiency[i] /\ data.efficiency[i] <= 18000

\* Both ends of the clip were hit: a stored 18 % and a returned 0 %.
C6_Witness ==
    /\ result # <<>>
    /\ result[1] = 0
    /\ dust = 500
    /\ Len(data.efficiency) > 0
    /\ data.efficiency[1] = 18000

\* C7: with irradiance >= 0 the power is non-negative, and between two calls
\* with the same temperature and dust the power does not decrease when the
\* irradiance does not decrease.
C7_PowerMonotone ==
    /\ [](result # <<>> /\ irradiance >= 0 => result[2] >= 0)
    /\ [][(result # <<>> /\ temp' = temp /\ dust' = dust
              /\ irradiance' >= irradiance)
            => result'[2] >= result[2]]_vars

\* A call with the largest irradiance and a positive power.
C7_Witness ==
    /\ result # <<>>
    /\ irradiance = 1200
    /\ temp = -300
    /\ dust = 500
    /\ result[2] > 0

\* C8: with temperature 25 and dust 0 the efficiency is 18 % and the power
\* is irradiance * 1.6 * 0.18 / 1000; simulate(0, 25, 0) is (18, 0).
C8_Reference ==
    (result # <<>> /\ temp = 25 /\ dust = 0) =>
        /\ result[1] = 18000
        /\ result[2] = irradiance * 288000
        /\ irradiance = 0 => result = <<18000, 0>>

C8_Witness ==
    /\ irradiance = 0
    /\ temp = 25
    /\ dust = 0
    /\ result = <<18000, 0>>

\* C9 as stated: every result of simulate_data has power >= 0, for every
\* argument.
C9_PowerNonNegative ==
    result # <<>> => result[2] >= 0

\* C9, amended: the power has the sign of the irradiance: it is >= 0 for
\* every irradiance >= 0 and <= 0 for every irradiance < 0, whatever the
\* temperature and the dust are.
C9_PowerSign ==
    result # <<>> =>
        /\ irradiance >= 0 => result[2] >= 0
        /\ irradiance < 0 => result[2] <= 0

\* Temperature and dust out of their domains, irradiance >= 0.
C9_Witness ==
    /\ result # <<>>
    /\ irradiance = 1200
    /\ temp = -300
    /\ dust = -100
    /\ result[2] > 0

\* C10: the label is "Stop Simulation" exactly when the interval is enabled
\* and "Start Simulation" exactly when it is disabled.
C10_LabelAgrees ==
    /\ children = STOP_LABEL <=> ~disabled
    /\ children = START_LABEL <=> disabled

C10_Witness ==
    /\ n_clicks = 3
    /\ ~disabled
    /\ children = STOP_LABEL

====
